---- MODULE Spec2Model ----
(***************************************************************************)
(* Model of the synthetic trace generator (trace-generator/main.go).       *)
(*                                                                         *)
(* Time is counted in whole milliseconds.  Every call of the global        *)
(* math/rand source is made explicit: a Gaussian deviate z, a jitter       *)
(* value, a rand.Float64() value in hundredths, a rand.Intn() value.       *)
(* An operator that draws in the source takes the drawn value, or the      *)
(* record R of the values the source may return, as an extra argument.     *)
(***************************************************************************)
EXTENDS Integers, Sequences, FiniteSets, TLC

VARIABLES
    choices,   \* pickWeighted: the pool passed in
    r,         \* pickWeighted: rand.Float64()*total, in half weight units
    picked,    \* pickWeighted: the value returned, "none" before the call
    a,         \* emitTrace: the traceAttrs sampled for the request
    u,         \* detectScenario: the rand.Float64() draw of the S6 gate, in hundredths
    sc,        \* emitTrace: the scenario detected, "none" before the call
    ts,        \* emitTrace: the timestamp argument
    spans,     \* the spans of the last emitted trace, in Start order
    phase,     \* main: position of the scheduler
    i,         \* main: the backfill loop counter
    now,       \* main: the wall clock
    backfillStart, \* main: time.Now().Add(-10 * time.Minute) at line 931
    emitted,   \* number of emitTrace calls made so far
    liveTicks, \* number of ticks of the live ticker processed so far
    sinkErr,   \* main: which constructor of the sink failed, "none" if none
    connOpen,  \* main: the gRPC connection exists and is not closed
    registry,  \* serviceTracers: the names that have a provider and a tracer
    signalled, \* a SIGINT or SIGTERM has been delivered to the process
    sigPending, \* sigCh holds a signal that main has not received yet
    stage,     \* main: how far the deferred calls have run after the return
    attempts,  \* shutdown: number of Shutdown calls made on each provider
    failures,  \* shutdown: the providers whose Shutdown returned an error
    tickReady, \* main: ticker.C holds a tick that main has not received yet
    calls,     \* number of emitTrace calls of main in progress
    open,      \* number of spans started and not yet ended
    afterSig,  \* live emitTrace calls started while sigCh held a signal
    logs,      \* the records written with the log package, in order
    deadline,  \* main: the deadline of shutdownCtx, 0 before it is created
    baseline,  \* computeComparison: the baseline distribution passed in
    selection, \* computeComparison: the selection distribution passed in
    result,    \* computeComparison: the ComparisonResult returned, Null before
    state,     \* AttributeComparisonPanel: selection, results and loading
    filters,   \* AttributeComparisonPanel: adHocVar.state.filters
    inflight,  \* AttributeComparisonPanel: the runComparison calls awaiting
    started,   \* AttributeComparisonPanel: number of runComparison calls made
    drag,      \* HeatmapPanel: the DragState, Null when no drag is in progress
    boxSelection, \* HeatmapPanel: the selection state, Null when none
    contextMenu \* HeatmapPanel: the ContextMenuState, Null when hidden

\* the state of the process around the scheduler
procVars == <<sinkErr, connOpen, registry, signalled, sigPending, stage, attempts,
              failures, tickReady, calls, open, afterSig, logs, deadline>>

vars == <<choices, r, picked, a, u, sc, ts, spans, phase, i, now,
          backfillStart, emitted, liveTicks, sinkErr, connOpen, registry, signalled,
          sigPending, stage, attempts, failures, tickReady, calls, open, afterSig,
          logs, deadline, baseline, selection, result, state, filters, inflight,
          started, drag, boxSelection, contextMenu>>

\* the state of the comparison package and of the heatmap panel
uiVars == <<baseline, selection, result, state, filters, inflight, started, drag,
            boxSelection, contextMenu>>

(* ── Bounds ─────────────────────────────────────────────────────────────── *)

\* largest |z| of the Gaussian deviates sampled: z in {-ZMax, 0, ZMax}
ZMax == 3
\* number of distinct user ids sampled from the 500 of userID()
NumUsers == 2
\* pickWeighted pools of the pool specification: length and weights
MaxLen == 3
MaxWeight == 2
\* scaled-down backfill: number of traces and window length (ms)
BackfillTraces == 3
BackfillWindow == 2
\* cap on the live ticks processed
MaxTicks == 2

(* ── Program constants ──────────────────────────────────────────────────── *)

\* jitter(): rand.Int63n(int64(2 * time.Millisecond))
JitterMs == 2
\* detectScenario / emitAuthMemoryLeak: rand.Float64() < 0.30, in hundredths
GatePct == 30
\* time.NewTicker(20 * time.Millisecond)
TickMs == 20
\* context.WithTimeout(context.Background(), 10*time.Second), in ms
ShutdownTimeoutMs == 10000
\* init(): pod-abc-1 .. pod-abc-8
NumPods == 8

Max(x, y) == IF x >= y THEN x ELSE y

(* ── Weighted random helpers ────────────────────────────────────────────── *)

WC(v, w) == [value |-> v, weight |-> w]

RECURSIVE totalFrom(_, _)
totalFrom(cs, k) == IF k > Len(cs) THEN 0 ELSE cs[k].weight + totalFrom(cs, k + 1)

\* first loop of pickWeighted: the total weight
totalWeight(cs) == totalFrom(cs, 1)

\* the values r = rand.Float64()*total can take, in half weight units:
\* rand.Float64() is in [0, 1), 0 included
FloatDraws(cs) == 0 .. (2 * totalWeight(cs) - 1)

\* second loop of pickWeighted from index k with remainder rem (half units)
RECURSIVE pickFrom(_, _, _)
pickFrom(cs, k, rem) ==
    IF k > Len(cs) THEN cs[Len(cs)].value
    ELSE LET rem1 == rem - 2 * cs[k].weight
         IN  IF rem1 <= 0 THEN cs[k].value ELSE pickFrom(cs, k + 1, rem1)

pickWeighted(cs, rv) == pickFrom(cs, 1, rv)

\* pickUniform: choices[rand.Intn(len(choices))]
pickUniform(cs, n) == cs[n + 1]

\* gaussianDuration with the deviate not scaled by stddev
gaussianDurationUnitSigma(mean, stddev, z) == Max(1, mean + z)

\* d := mean + z*stddev; if d < 1 { d = 1 }
gaussianDuration(mean, stddev, z) == Max(1, mean + z * stddev)

(* ── Attribute pools ────────────────────────────────────────────────────── *)

routes == << WC("/api/users", 25), WC("/api/orders", 15), WC("/cart/checkout", 10),
             WC("/api/search", 25), WC("/api/products", 15), WC("/api/auth", 10) >>

methods == << WC("GET", 60), WC("POST", 25), WC("PUT", 10), WC("DELETE", 5) >>

regions == << WC("us-east-1", 40), WC("us-west-2", 30), WC("eu-west-1", 20),
              WC("ap-southeast-1", 10) >>

buildIDs == << WC("build-7a1", 35), WC("build-7a2", 35), WC("build-7a3", 30) >>

platforms == << WC("web", 50), WC("ios", 30), WC("android", 20) >>

featureFlags == << WC("new-checkout-flow", 15), WC("dark-launch-search", 10),
                   WC("legacy", 75) >>

tenants == << "tenant-acme", "tenant-globex", "tenant-initech", "tenant-umbrella" >>

podName(n) == CASE n = 1 -> "pod-abc-1" [] n = 2 -> "pod-abc-2" [] n = 3 -> "pod-abc-3"
                [] n = 4 -> "pod-abc-4" [] n = 5 -> "pod-abc-5" [] n = 6 -> "pod-abc-6"
                [] n = 7 -> "pod-abc-7" [] OTHER -> "pod-abc-8"

podNames == [n \in 1 .. NumPods |-> podName(n)]

\* userID(): "user-%04d" of rand.Intn(500)+1; the model keeps the number
userID(n) == <<"user", n + 1>>

\* every value a pool can yield, over every draw
Picks(cs) == { pickWeighted(cs, rv) : rv \in FloatDraws(cs) }
Uniform(cs) == { pickUniform(cs, n) : n \in 0 .. (Len(cs) - 1) }

\* the traceAttrs values emitTrace can sample (lines 297-307)
Tuples == [ route : Picks(routes), method : Picks(methods), region : Picks(regions),
            buildID : Picks(buildIDs), platform : Picks(platforms),
            featureFlag : Picks(featureFlags), tenant : Uniform(tenants),
            uid : { userID(n) : n \in 0 .. (NumUsers - 1) },
            pod : Uniform(podNames) ]

(* ── Service mapping ────────────────────────────────────────────────────── *)

\* routeToService without the /api/auth case
routeToServiceNoAuth(route) ==
    CASE route \in {"/api/orders", "/cart/checkout"} -> "order-service"
      [] route \in {"/api/users"} -> "user-service"
      [] route \in {"/api/search", "/api/products"} -> "search-service"
      [] OTHER -> "unknown-service"

routeToService(route) ==
    CASE route \in {"/api/orders", "/cart/checkout"} -> "order-service"
      [] route \in {"/api/users", "/api/auth"} -> "user-service"
      [] route \in {"/api/search", "/api/products"} -> "search-service"
      [] OTHER -> "unknown-service"

serviceToDBSystem(svc) ==
    CASE svc = "order-service" -> "postgres"
      [] svc = "user-service" -> "postgres"
      [] svc = "search-service" -> "elasticsearch"
      [] OTHER -> "none"

(* ── Scenario detection ─────────────────────────────────────────────────── *)

\* detectScenario with the Umbrella rule tried first
detectScenarioUmbrellaFirst(av, uv) ==
    LET svc == routeToService(av.route) IN
    IF av.tenant = "tenant-umbrella" /\ av.region = "eu-west-1"
    THEN "UmbrellaCompliance"
    ELSE IF av.route = "/cart/checkout" /\ av.region = "us-west-2" /\ uv < GatePct
    THEN "PaymentTimeout"
    ELSE IF av.route = "/cart/checkout" /\ av.featureFlag = "new-checkout-flow"
            /\ av.region = "eu-west-1"
    THEN "SlowCheckout"
    ELSE IF av.route = "/api/orders" /\ av.platform = "ios" /\ av.buildID = "build-7a3"
    THEN "IOSOrderErrors"
    ELSE IF av.tenant = "tenant-initech" /\ av.featureFlag = "dark-launch-search"
            /\ av.route = "/api/search"
    THEN "InitechSearch"
    ELSE IF av.route = "/api/auth" /\ av.buildID = "build-7a3"
            /\ (av.pod = "pod-abc-7" \/ av.pod = "pod-abc-8")
    THEN "AuthMemoryLeak"
    ELSE IF av.region = "ap-southeast-1" /\ svc = "user-service"
    THEN "RedisTimeoutAPAC"
    ELSE IF av.tenant = "tenant-globex" /\ av.route = "/api/products" /\ av.method = "POST"
    THEN "GlobexBatch"
    ELSE "Normal"

\* detectScenario with the iOS rule tried after the tenant rules
detectScenarioIOSLate(av, uv) ==
    LET svc == routeToService(av.route) IN
    IF av.route = "/cart/checkout" /\ av.region = "us-west-2" /\ uv < GatePct
    THEN "PaymentTimeout"
    ELSE IF av.route = "/cart/checkout" /\ av.featureFlag = "new-checkout-flow"
            /\ av.region = "eu-west-1"
    THEN "SlowCheckout"
    ELSE IF av.tenant = "tenant-initech" /\ av.featureFlag = "dark-launch-search"
            /\ av.route = "/api/search"
    THEN "InitechSearch"
    ELSE IF av.route = "/api/auth" /\ av.buildID = "build-7a3"
            /\ (av.pod = "pod-abc-7" \/ av.pod = "pod-abc-8")
    THEN "AuthMemoryLeak"
    ELSE IF av.region = "ap-southeast-1" /\ svc = "user-service"
    THEN "RedisTimeoutAPAC"
    ELSE IF av.tenant = "tenant-globex" /\ av.route = "/api/products" /\ av.method = "POST"
    THEN "GlobexBatch"
    ELSE IF av.tenant = "tenant-umbrella" /\ av.region = "eu-west-1"
    THEN "UmbrellaCompliance"
    ELSE IF av.route = "/api/orders" /\ av.platform = "ios" /\ av.buildID = "build-7a3"
    THEN "IOSOrderErrors"
    ELSE "Normal"

\* detectScenario with the S6 gate missing its region condition
detectScenarioGateAnyRegion(av, uv) ==
    LET svc == routeToService(av.route) IN
    IF av.route = "/cart/checkout" /\ uv < GatePct
    THEN "PaymentTimeout"
    ELSE IF av.route = "/cart/checkout" /\ av.featureFlag = "new-checkout-flow"
            /\ av.region = "eu-west-1"
    THEN "SlowCheckout"
    ELSE IF av.route = "/api/orders" /\ av.platform = "ios" /\ av.buildID = "build-7a3"
    THEN "IOSOrderErrors"
    ELSE IF av.tenant = "tenant-initech" /\ av.featureFlag = "dark-launch-search"
            /\ av.route = "/api/search"
    THEN "InitechSearch"
    ELSE IF av.route = "/api/auth" /\ av.buildID = "build-7a3"
            /\ (av.pod = "pod-abc-7" \/ av.pod = "pod-abc-8")
    THEN "AuthMemoryLeak"
    ELSE IF av.region = "ap-southeast-1" /\ svc = "user-service"
    THEN "RedisTimeoutAPAC"
    ELSE IF av.tenant = "tenant-globex" /\ av.route = "/api/products" /\ av.method = "POST"
    THEN "GlobexBatch"
    ELSE IF av.tenant = "tenant-umbrella" /\ av.region = "eu-west-1"
    THEN "UmbrellaCompliance"
    ELSE "Normal"

\* detectScenario whose S3 rule does not look at the region
detectScenarioRedisAnyRegion(av, uv) ==
    LET svc == routeToService(av.route) IN
    IF av.route = "/cart/checkout" /\ av.region = "us-west-2" /\ uv < GatePct
    THEN "PaymentTimeout"
    ELSE IF av.route = "/cart/checkout" /\ av.featureFlag = "new-checkout-flow"
            /\ av.region = "eu-west-1"
    THEN "SlowCheckout"
    ELSE IF av.route = "/api/orders" /\ av.platform = "ios" /\ av.buildID = "build-7a3"
    THEN "IOSOrderErrors"
    ELSE IF av.tenant = "tenant-initech" /\ av.featureFlag = "dark-launch-search"
            /\ av.route = "/api/search"
    THEN "InitechSearch"
    ELSE IF av.route = "/api/auth" /\ av.buildID = "build-7a3"
            /\ (av.pod = "pod-abc-7" \/ av.pod = "pod-abc-8")
    THEN "AuthMemoryLeak"
    ELSE IF svc = "user-service"
    THEN "RedisTimeoutAPAC"
    ELSE IF av.tenant = "tenant-globex" /\ av.route = "/api/products" /\ av.method = "POST"
    THEN "GlobexBatch"
    ELSE IF av.tenant = "tenant-umbrella" /\ av.region = "eu-west-1"
    THEN "UmbrellaCompliance"
    ELSE "Normal"

\* uv is the rand.Float64() value of line 245, in hundredths; Go evaluates it
\* only when the two conditions before it hold
detectScenario(av, uv) ==
    LET svc == routeToService(av.route) IN
    IF av.route = "/cart/checkout" /\ av.region = "us-west-2" /\ uv < GatePct
    THEN "PaymentTimeout"
    ELSE IF av.route = "/cart/checkout" /\ av.featureFlag = "new-checkout-flow"
            /\ av.region = "eu-west-1"
    THEN "SlowCheckout"
    ELSE IF av.route = "/api/orders" /\ av.platform = "ios" /\ av.buildID = "build-7a3"
    THEN "IOSOrderErrors"
    ELSE IF av.tenant = "tenant-initech" /\ av.featureFlag = "dark-launch-search"
            /\ av.route = "/api/search"
    THEN "InitechSearch"
    ELSE IF av.route = "/api/auth" /\ av.buildID = "build-7a3"
            /\ (av.pod = "pod-abc-7" \/ av.pod = "pod-abc-8")
    THEN "AuthMemoryLeak"
    ELSE IF av.region = "ap-southeast-1" /\ svc = "user-service"
    THEN "RedisTimeoutAPAC"
    ELSE IF av.tenant = "tenant-globex" /\ av.route = "/api/products" /\ av.method = "POST"
    THEN "GlobexBatch"
    ELSE IF av.tenant = "tenant-umbrella" /\ av.region = "eu-west-1"
    THEN "UmbrellaCompliance"
    ELSE "Normal"

(* ── Random source ──────────────────────────────────────────────────────── *)

\* the deviates rand.NormFloat64() is sampled at: both tails and the mean
ZSet == {0 - ZMax, 0, ZMax}

\* the values rand.Float64() is sampled at, in hundredths: 0 and both sides
\* of every threshold the program compares it with (0.30, 0.95, 0.98)
Float64 == {0, GatePct - 1, GatePct, 94, 95, 97, 98, 99}

\* the free source: every sampled deviate, every jitter value in [0, 2ms)
Rand == [norm |-> ZSet, jit |-> 0 .. (JitterMs - 1)]

\* a seeded source for the timing draws: the mean duration, no jitter
Seeded == [norm |-> {0}, jit |-> {0}]

\* the results gaussianDuration(mean, stddev) can have under source R
G(mean, stddev, R) == { gaussianDuration(mean, stddev, z) : z \in R.norm }

\* jitter() with an offset centred on zero
jitterSigned(R) == { j - 1 : j \in R.jit }

\* the results of jitter() under source R
jitter(R) == R.jit

(* ── Status code helpers ────────────────────────────────────────────────── *)

\* pickNormalStatusCode whose default case answers 500
pickNormalStatusCodeServerError(rv) ==
    IF rv < 95 THEN 200 ELSE IF rv < 98 THEN 201 ELSE 500

pickNormalStatusCode(rv) ==
    IF rv < 95 THEN 200 ELSE IF rv < 98 THEN 201 ELSE 404

StatusCodes == { pickNormalStatusCode(rv) : rv \in Float64 }

(* ── Spans ──────────────────────────────────────────────────────────────── *)

\* one span as exported: tracer is the name given to st.tracer(), parent the
\* position in spans of the span whose context it was started in (0: none),
\* end the timestamp given to End
Span(name, tracer, parent, start, end, kind, status, attrs) ==
    [name |-> name, tracer |-> tracer, parent |-> parent, start |-> start,
     end |-> end, kind |-> kind, status |-> status, attrs |-> attrs]

\* commonAttrs of emitTrace (lines 313-323)
commonAttrs(av) ==
    ("http.method" :> av.method) @@ ("http.route" :> av.route) @@
    ("user.id" :> av.uid) @@ ("app.tenant_id" :> av.tenant) @@
    ("host.region" :> av.region) @@ ("app.build_id" :> av.buildID) @@
    ("app.platform" :> av.platform) @@ ("app.feature_flag" :> av.featureFlag) @@
    ("k8s.pod.name" :> av.pod)

svcAttrs(svc, av) ==
    ("service.name" :> svc) @@ ("http.route" :> av.route) @@
    ("host.region" :> av.region) @@ ("app.build_id" :> av.buildID) @@
    ("app.feature_flag" :> av.featureFlag) @@ ("app.platform" :> av.platform) @@
    ("user.id" :> av.uid) @@ ("app.tenant_id" :> av.tenant) @@
    ("k8s.pod.name" :> av.pod)

\* the attributes of the api-gateway root span: append(common, ServiceName, status)
rootAttrs(common, code) ==
    common @@ ("service.name" :> "api-gateway") @@ ("http.status_code" :> code)

\* the attributes of a database client span
dbAttrs(svc, av, system, stmt) ==
    ("db.system" :> system) @@ ("db.statement" :> stmt) @@
    ("service.name" :> svc) @@ ("host.region" :> av.region)

\* the attributes of a payment-service client span
payAttrs(av) ==
    ("service.name" :> "payment-service") @@ ("host.region" :> av.region)

\* the root span every builder starts on the api-gateway tracer
rootSpan(tsv, av, common, code, status, rootDur) ==
    Span(<<av.method, " ", av.route>>, "api-gateway", 0, tsv, tsv + rootDur,
         "Server", status, rootAttrs(common, code))

\* strings.TrimPrefix(route, "/api/") over the routes pool
TrimApiPrefix(route) ==
    CASE route = "/api/users" -> "users" [] route = "/api/orders" -> "orders"
      [] route = "/api/search" -> "search" [] route = "/api/products" -> "products"
      [] route = "/api/auth" -> "auth" [] OTHER -> route

\* emitNormalLeafSpan: no span when the service has no database, else one
\* client span of duration leafDur started in the context of span parent
emitNormalLeafSpan(parent, svc, dbSys, av, leafStart, leafDur) ==
    CASE dbSys = "postgres" ->
           << Span(<<"postgres.query">>, svc, parent, leafStart, leafStart + leafDur,
                   "Client", "Unset",
                   dbAttrs(svc, av, "postgres", <<"SELECT * FROM ", TrimApiPrefix(av.route)>>)) >>
      [] dbSys = "elasticsearch" ->
           << Span(<<"elasticsearch.search">>, svc, parent, leafStart, leafStart + leafDur,
                   "Client", "Unset",
                   dbAttrs(svc, av, "elasticsearch", <<"{query:{match_all:{}}}">>)) >>
      [] OTHER -> << >>

(* ── Span tree builders ─────────────────────────────────────────────────── *)
(* Each builder is the action that replaces spans by the tree it emits,    *)
(* for every value its draws from source R can take.                       *)

\* the cursor advanced by the 1 ms gap only, the query duration left out
cursorAfterNoDur(c0, durs, k) == c0 + k

\* the cursor of emitSlowCheckout after k queries: cursor.Add(qDur).Add(1ms) each
RECURSIVE cursorAfter(_, _, _)
cursorAfter(c0, durs, k) ==
    IF k = 0 THEN c0 ELSE cursorAfter(c0, durs, k - 1) + durs[k] + 1

\* emitSlowCheckout drawing 2 + rand.Intn(3) queries
emitSlowCheckoutFromTwo(tsv, av, common, R) ==
    \E rootDur \in G(1500, 400, R), svcDur \in G(1200, 350, R), payDur \in G(200, 50, R) :
    \E j1 \in jitter(R), j2 \in jitter(R), j3 \in jitter(R), j4 \in jitter(R) :
    \E nQueries \in 2 .. 4 :
    \E qz \in [1 .. nQueries -> R.norm] :
    \E extDur \in G(150, 30, R) :
      LET svcStart == tsv + j1
          cursor0  == svcStart + j2
          \* float64(svcDur.Milliseconds())/float64(nQueries)*0.6, in whole ms
          qMean    == (svcDur * 6) \div (nQueries * 10)
          qDurs    == [k \in 1 .. nQueries |-> gaussianDuration(qMean, 20, qz[k])]
          query(k) == Span(<<"postgres.query">>, "order-service", 2,
                           cursorAfter(cursor0, qDurs, k - 1),
                           cursorAfter(cursor0, qDurs, k - 1) + qDurs[k],
                           "Client", "Unset",
                           dbAttrs("order-service", av, "postgres",
                                   <<"SELECT * FROM orders WHERE id = %d">>))
          payStart == cursorAfter(cursor0, qDurs, nQueries) + j3
      IN  spans' =
            << rootSpan(tsv, av, common, 200, "Ok", rootDur),
               Span(<<"order-service", ".handle">>, "order-service", 1, svcStart,
                    svcStart + svcDur, "Internal", "Unset", svcAttrs("order-service", av)) >>
            \o [k \in 1 .. nQueries |-> query(k)]
            \o << Span(<<"payment-service.charge">>, "payment-service", 2, payStart,
                       payStart + payDur, "Client", "Unset", payAttrs(av)),
                  Span(<<"external.payment.process">>, "payment-service", nQueries + 3,
                       payStart + j4, payStart + extDur, "Client", "Unset", payAttrs(av)) >>

\* S1: N+1 queries under order-service, then the payment call
emitSlowCheckout(tsv, av, common, R) ==
    \E rootDur \in G(1500, 400, R), svcDur \in G(1200, 350, R), payDur \in G(200, 50, R) :
    \E j1 \in jitter(R), j2 \in jitter(R), j3 \in jitter(R), j4 \in jitter(R) :
    \E nQueries \in 3 .. 5 :
    \E qz \in [1 .. nQueries -> R.norm] :
    \E extDur \in G(150, 30, R) :
      LET svcStart == tsv + j1
          cursor0  == svcStart + j2
          \* float64(svcDur.Milliseconds())/float64(nQueries)*0.6, in whole ms
          qMean    == (svcDur * 6) \div (nQueries * 10)
          qDurs    == [k \in 1 .. nQueries |-> gaussianDuration(qMean, 20, qz[k])]
          query(k) == Span(<<"postgres.query">>, "order-service", 2,
                           cursorAfter(cursor0, qDurs, k - 1),
                           cursorAfter(cursor0, qDurs, k - 1) + qDurs[k],
                           "Client", "Unset",
                           dbAttrs("order-service", av, "postgres",
                                   <<"SELECT * FROM orders WHERE id = %d">>))
          payStart == cursorAfter(cursor0, qDurs, nQueries) + j3
      IN  spans' =
            << rootSpan(tsv, av, common, 200, "Ok", rootDur),
               Span(<<"order-service", ".handle">>, "order-service", 1, svcStart,
                    svcStart + svcDur, "Internal", "Unset", svcAttrs("order-service", av)) >>
            \o [k \in 1 .. nQueries |-> query(k)]
            \o << Span(<<"payment-service.charge">>, "payment-service", 2, payStart,
                       payStart + payDur, "Client", "Unset", payAttrs(av)),
                  Span(<<"external.payment.process">>, "payment-service", nQueries + 3,
                       payStart + j4, payStart + extDur, "Client", "Unset", payAttrs(av)) >>

\* emitIOSOrderErrors without svcSpan.SetStatus
emitIOSOrderErrorsSvcUnset(tsv, av, common, R) ==
    \E rootDur \in G(250, 60, R), svcDur \in G(100, 30, R), j1 \in jitter(R) :
      LET svcStart == tsv + j1
      IN  spans' =
            << rootSpan(tsv, av, common, 500, "Error", rootDur),
               Span(<<"order-service", ".handle">>, "order-service", 1, svcStart,
                    svcStart + svcDur, "Internal", "Unset", svcAttrs("order-service", av)) >>

\* S2: root and order-service both fail
emitIOSOrderErrors(tsv, av, common, R) ==
    \E rootDur \in G(250, 60, R), svcDur \in G(100, 30, R), j1 \in jitter(R) :
      LET svcStart == tsv + j1
      IN  spans' =
            << rootSpan(tsv, av, common, 500, "Error", rootDur),
               Span(<<"order-service", ".handle">>, "order-service", 1, svcStart,
                    svcStart + svcDur, "Internal", "Error", svcAttrs("order-service", av)) >>

\* S3: slow redis lookup, then the postgres fallback
emitRedisTimeoutAPAC(tsv, av, common, svc, R) ==
    \E rootDur \in G(650, 120, R), svcDur \in G(580, 100, R) :
    \E j1 \in jitter(R), j2 \in jitter(R) :
    \E redisDur \in G(550, 100, R), pgDur \in G(30, 10, R) :
      LET svcStart  == tsv + j1
          leafStart == svcStart + j2
          pgStart   == leafStart + redisDur + 1
      IN  spans' =
            << rootSpan(tsv, av, common, 200, "Ok", rootDur),
               Span(<<svc, ".handle">>, svc, 1, svcStart, svcStart + svcDur,
                    "Internal", "Unset", svcAttrs(svc, av)),
               Span(<<"redis.get">>, svc, 2, leafStart, leafStart + redisDur,
                    "Client", "Unset",
                    dbAttrs(svc, av, "redis", <<"GET user:session:", av.uid>>)),
               Span(<<"postgres.query">>, svc, 2, pgStart, pgStart + pgDur,
                    "Client", "Unset",
                    dbAttrs(svc, av, "postgres",
                            <<"SELECT * FROM users WHERE id = '", av.uid, "'">>)) >>

\* S4: elasticsearch times out, search-service and root fail
emitInitechSearch(tsv, av, common, R) ==
    \E rootDur \in G(3000, 500, R), svcDur \in G(2800, 450, R) :
    \E j1 \in jitter(R), j2 \in jitter(R), esDur \in G(2500, 400, R) :
      LET svcStart == tsv + j1
          esStart  == svcStart + j2
      IN  spans' =
            << rootSpan(tsv, av, common, 500, "Error", rootDur),
               Span(<<"search-service", ".handle">>, "search-service", 1, svcStart,
                    svcStart + svcDur, "Internal", "Error",
                    svcAttrs("search-service", av)),
               Span(<<"elasticsearch.search">>, "search-service", 2, esStart,
                    esStart + esDur, "Client", "Error",
                    dbAttrs("search-service", av, "elasticsearch",
                            <<"{query:{match:{tenant:initech}},timeout:2s}">>)) >>

\* S5: the second coin (rand.Float64() < 0.30) selects 503 or 200
emitAuthMemoryLeak(tsv, av, common, R) ==
    \E rootDur \in G(800, 200, R), svcDur \in G(700, 180, R), rv \in Float64 :
    \E j1 \in jitter(R), j2 \in jitter(R), redisDur \in G(600, 150, R) :
      LET statusCode == IF rv < GatePct THEN 503 ELSE 200
          failed     == rv < GatePct
          svcStart   == tsv + j1
          redisStart == svcStart + j2
      IN  spans' =
            << rootSpan(tsv, av, common, statusCode,
                        IF failed THEN "Error" ELSE "Ok", rootDur),
               Span(<<"user-service", ".handle">>, "user-service", 1, svcStart,
                    svcStart + svcDur, "Internal",
                    IF failed THEN "Error" ELSE "Unset", svcAttrs("user-service", av)),
               Span(<<"redis.get">>, "user-service", 2, redisStart,
                    redisStart + redisDur, "Client", "Unset",
                    dbAttrs("user-service", av, "redis", <<"GET auth:token:", av.uid>>)) >>

\* emitPaymentTimeout answering as the search failure does (HTTP 500)
emitPaymentTimeoutAs500(tsv, av, common, R) == emitInitechSearch(tsv, av, common, R)

\* S6: quick DB write, then the payment call hangs
emitPaymentTimeout(tsv, av, common, R) ==
    \E rootDur \in G(5000, 500, R), svcDur \in G(4800, 450, R) :
    \E j1 \in jitter(R), j2 \in jitter(R), j3 \in jitter(R), j4 \in jitter(R) :
    \E dbDur \in G(20, 8, R), payDur \in G(4500, 300, R) :
      LET svcStart == tsv + j1
          dbStart  == svcStart + j2
          payStart == dbStart + dbDur + j3
      IN  spans' =
            << rootSpan(tsv, av, common, 504, "Error", rootDur),
               Span(<<"order-service", ".handle">>, "order-service", 1, svcStart,
                    svcStart + svcDur, "Internal", "Error",
                    svcAttrs("order-service", av)),
               Span(<<"postgres.query">>, "order-service", 2, dbStart, dbStart + dbDur,
                    "Client", "Unset",
                    dbAttrs("order-service", av, "postgres",
                            <<"INSERT INTO orders (id, status) VALUES (...)">>)),
               Span(<<"payment-service.charge">>, "payment-service", 2, payStart,
                    payStart + payDur, "Client", "Error", payAttrs(av)),
               Span(<<"external.payment.process">>, "payment-service", 4,
                    payStart + j4, payStart + payDur, "Client", "Error", payAttrs(av)) >>

\* S7: the compliance check is the overhead, then the normal leaf
emitUmbrellaCompliance(tsv, av, common, svc, R) ==
    \E overhead \in G(150, 40, R), baseDur \in G(40, 20, R), statusCode \in StatusCodes :
    \E j1 \in jitter(R), j2 \in jitter(R), j3 \in jitter(R), leafDur \in G(10, 5, R) :
      LET rootDur   == baseDur + overhead
          svcStart  == tsv + j1
          compStart == svcStart + j2
      IN  spans' =
            << rootSpan(tsv, av, common, statusCode, "Ok", rootDur),
               Span(<<svc, ".handle">>, svc, 1, svcStart, svcStart + (baseDur + overhead),
                    "Internal", "Unset", svcAttrs(svc, av)),
               Span(<<"compliance.data_residency_check">>, svc, 2, compStart,
                    compStart + overhead, "Internal", "Unset",
                    ("service.name" :> svc) @@ ("app.tenant_id" :> av.tenant) @@
                    ("host.region" :> av.region)) >>
            \o emitNormalLeafSpan(2, svc, serviceToDBSystem(svc), av,
                                  compStart + overhead + j3, leafDur)

\* S8: slow elasticsearch bulk write
emitGlobexBatch(tsv, av, common, R) ==
    \E rootDur \in G(600, 120, R), svcDur \in G(500, 100, R) :
    \E j1 \in jitter(R), j2 \in jitter(R), esDur \in G(450, 80, R) :
      LET svcStart == tsv + j1
          esStart  == svcStart + j2
      IN  spans' =
            << rootSpan(tsv, av, common, 200, "Ok", rootDur),
               Span(<<"search-service", ".handle">>, "search-service", 1, svcStart,
                    svcStart + svcDur, "Internal", "Unset",
                    svcAttrs("search-service", av)),
               Span(<<"elasticsearch.bulk_index">>, "search-service", 2, esStart,
                    esStart + esDur, "Client", "Unset",
                    dbAttrs("search-service", av, "elasticsearch",
                            <<"{index:{_index:products}}">>)) >>

\* emitNormalTrace, lines 787-802: user-service also does a fast redis lookup
normalRedisBranch(svc, av, leafStart, R) ==
    IF svc = "user-service"
    THEN { << Span(<<"redis.get">>, svc, 2, leafStart + g + j, leafStart + g + j + rDur,
                   "Client", "Unset",
                   dbAttrs(svc, av, "redis", <<"GET user:cache:", av.uid>>)) >> :
           <<g, j, rDur>> \in G(10, 5, R) \X jitter(R) \X G(2, 1, R) }
    ELSE { << >> }

\* emitNormalTrace, lines 804-827: checkout adds the payment-service call;
\* pay is the position the payment-service.charge span takes in spans
normalPayBranch(av, svcStart, pay, R) ==
    IF av.route = "/cart/checkout"
    THEN { << Span(<<"payment-service.charge">>, "payment-service", 2,
                   svcStart + g, svcStart + g + payDur, "Client", "Unset", payAttrs(av)),
              Span(<<"external.payment.process">>, "payment-service", pay,
                   svcStart + g + j, svcStart + g + extDur, "Client", "Unset",
                   payAttrs(av)) >> :
           <<g, payDur, extDur, j>> \in G(15, 5, R) \X G(10, 4, R) \X G(8, 3, R) \X jitter(R) }
    ELSE { << >> }

\* the notification branch taken whatever the status code
normalNotifBranchAnyStatus(av, statusCode, svcStart, R) ==
    IF av.route = "/api/orders"
    THEN { << Span(<<"notification-service.send">>, "notification-service", 2,
                   svcStart, svcStart + notifDur, "Client", "Unset",
                   ("service.name" :> "notification-service") @@
                   ("host.region" :> av.region) @@ ("user.id" :> av.uid)) >> :
           notifDur \in G(5, 2, R) }
    ELSE { << >> }

\* emitNormalTrace, lines 829-843: a successful order adds the notification call
normalNotifBranch(av, statusCode, svcStart, R) ==
    IF av.route = "/api/orders" /\ statusCode < 400
    THEN { << Span(<<"notification-service.send">>, "notification-service", 2,
                   svcStart + g, svcStart + g + notifDur, "Client", "Unset",
                   ("service.name" :> "notification-service") @@
                   ("host.region" :> av.region) @@ ("user.id" :> av.uid)) >> :
           <<g, notifDur>> \in G(20, 5, R) \X G(5, 2, R) }
    ELSE { << >> }

\* the healthy trace: root, service span, leaf, and the route's branches
emitNormalTrace(tsv, av, common, svc, R) ==
    \E rootDur \in G(40, 20, R), svcDur \in G(25, 12, R), statusCode \in StatusCodes :
    \E j1 \in jitter(R), j2 \in jitter(R), leafDur \in G(10, 5, R) :
      LET svcStart  == tsv + j1
          leafStart == svcStart + j2
          head == << rootSpan(tsv, av, common, statusCode, "Ok", rootDur),
                     Span(<<svc, ".handle">>, svc, 1, svcStart, svcStart + svcDur,
                          "Internal", "Unset", svcAttrs(svc, av)) >>
                  \o emitNormalLeafSpan(2, svc, serviceToDBSystem(svc), av,
                                        leafStart, leafDur)
      IN  \E rb \in normalRedisBranch(svc, av, leafStart, R) :
          \E pb \in normalPayBranch(av, svcStart, Len(head) + Len(rb) + 1, R) :
          \E nb \in normalNotifBranch(av, statusCode, svcStart, R) :
            spans' = head \o rb \o pb \o nb

(* ── Trace emission ─────────────────────────────────────────────────────── *)

\* emitTrace(ctx, st, ts): av is the tuple sampled at lines 297-307 and uv the
\* draw of the S6 gate; the builder of the detected scenario emits the tree
emitTrace(tsv, av, uv, R) ==
    LET s      == detectScenario(av, uv)
        svc    == routeToService(av.route)
        common == commonAttrs(av)
    IN  /\ a' = av
        /\ u' = uv
        /\ ts' = tsv
        /\ sc' = s
        /\ emitted' = emitted + 1
        /\ CASE s = "SlowCheckout" -> emitSlowCheckout(tsv, av, common, R)
             [] s = "IOSOrderErrors" -> emitIOSOrderErrors(tsv, av, common, R)
             [] s = "RedisTimeoutAPAC" -> emitRedisTimeoutAPAC(tsv, av, common, svc, R)
             [] s = "InitechSearch" -> emitInitechSearch(tsv, av, common, R)
             [] s = "AuthMemoryLeak" -> emitAuthMemoryLeak(tsv, av, common, R)
             [] s = "PaymentTimeout" -> emitPaymentTimeout(tsv, av, common, R)
             [] s = "UmbrellaCompliance" -> emitUmbrellaCompliance(tsv, av, common, svc, R)
             [] s = "GlobexBatch" -> emitGlobexBatch(tsv, av, common, R)
             [] OTHER -> emitNormalTrace(tsv, av, common, svc, R)

(* ── Specifications of the pure functions ───────────────────────────────── *)

\* the two sides of the S6 gate threshold: coin true, coin false
GateDraws == {GatePct - 1, GatePct}

\* a tuple of the pools, for the variables a specification does not use
NoAttrs == CHOOSE t \in Tuples : TRUE

PickIdle  == choices = << >> /\ r = 0 /\ picked = 0
TraceIdle == sc = "none" /\ ts = 0 /\ spans = << >> /\ emitted = 0
\* names := []string{...} of newServiceTracers
Roster == { "api-gateway", "order-service", "user-service", "search-service",
            "payment-service", "notification-service" }

\* null, and a result not returned yet: a record, as the values it stands for
Null == [null |-> TRUE]

\* computeComparison not called yet
CompareIdle == baseline = << >> /\ selection = << >> /\ result = Null

\* AttributeComparisonPanel as constructed (line 52)
PanelIdle ==
    /\ state = [selection |-> Null, results |-> << >>, loading |-> FALSE]
    /\ filters = {} /\ inflight = {} /\ started = 0

\* HeatmapPanel as first rendered (lines 83-85 of the component)
HeatmapIdle == drag = Null /\ boxSelection = Null /\ contextMenu = Null

\* the comparison package and the heatmap panel, unused
UiIdle == CompareIdle /\ PanelIdle /\ HeatmapIdle

\* the process before main has constructed or torn down anything
ProcIdle ==
    /\ sinkErr = "none" /\ connOpen = FALSE /\ registry = {}
    /\ signalled = FALSE /\ sigPending = FALSE /\ stage = "none"
    /\ attempts = [n \in Roster |-> 0] /\ failures = {}
    /\ tickReady = FALSE /\ calls = 0 /\ open = 0 /\ afterSig = 0
    /\ logs = << >> /\ deadline = 0

SchedIdle ==
    /\ phase = "None" /\ i = 0 /\ now = 0 /\ backfillStart = 0 /\ liveTicks = 0
    /\ ProcIdle

\* pools of length n: entry k has value k and a weight in 0 .. MaxWeight
PoolsOfLen(n) == { [k \in 1 .. n |-> WC(k, ws[k])] : ws \in [1 .. n -> 0 .. MaxWeight] }

Pools == { cs \in UNION { PoolsOfLen(n) : n \in 1 .. MaxLen } : totalWeight(cs) > 0 }

InitPick ==
    /\ choices \in Pools
    /\ r \in FloatDraws(choices)
    /\ picked = 0
    /\ a = NoAttrs /\ u = GatePct
    /\ TraceIdle /\ SchedIdle /\ UiIdle

\* one call pickWeighted(choices) whose draw is r
Pick ==
    /\ picked = 0 /\ choices # << >>
    /\ picked' = pickWeighted(choices, r)
    /\ UNCHANGED <<choices, r, a, u, sc, ts, spans, phase, i, now, backfillStart,
                   emitted, liveTicks>>
    /\ UNCHANGED procVars
    /\ UNCHANGED uiVars

SpecPick == InitPick /\ [][Pick]_vars

InitClassify ==
    /\ a \in Tuples
    /\ u \in GateDraws
    /\ PickIdle /\ TraceIdle /\ SchedIdle /\ UiIdle

\* one call detectScenario(a) whose gate draw is u
Classify ==
    /\ phase = "None" /\ sc = "none"
    /\ sc' = detectScenario(a, u)
    /\ UNCHANGED <<choices, r, picked, a, u, ts, spans, phase, i, now, backfillStart,
                   emitted, liveTicks>>
    /\ UNCHANGED procVars
    /\ UNCHANGED uiVars

SpecClassify == InitClassify /\ [][Classify]_vars

(* ── Specifications of emitTrace ────────────────────────────────────────── *)

Attrs(route, method, region, buildID, platform, featureFlag, tenant, pod) ==
    [route |-> route, method |-> method, region |-> region, buildID |-> buildID,
     platform |-> platform, featureFlag |-> featureFlag, tenant |-> tenant,
     uid |-> userID(0), pod |-> pod]

\* a healthy request on a route
Healthy(route) ==
    Attrs(route, "GET", "us-east-1", "build-7a1", "web", "legacy", "tenant-acme",
          "pod-abc-1")

\* the requests the timing of the builders is explored on: the shape and the
\* timing of a tree depend on the tuple through its scenario and route only,
\* so one tuple is taken for every builder and every route branch of a builder
TimingTuples ==
    { Healthy(rt) : rt \in Picks(routes) } \cup
    { Attrs("/cart/checkout", "GET", "eu-west-1", "build-7a1", "web",
            "new-checkout-flow", "tenant-acme", "pod-abc-1"),
      Attrs("/cart/checkout", "POST", "us-west-2", "build-7a2", "android",
            "legacy", "tenant-acme", "pod-abc-2"),
      Attrs("/api/orders", "POST", "us-east-1", "build-7a3", "ios",
            "legacy", "tenant-acme", "pod-abc-3"),
      Attrs("/api/search", "GET", "us-east-1", "build-7a1", "web",
            "dark-launch-search", "tenant-initech", "pod-abc-4"),
      Attrs("/api/auth", "POST", "us-east-1", "build-7a3", "web",
            "legacy", "tenant-acme", "pod-abc-7"),
      Attrs("/api/users", "GET", "ap-southeast-1", "build-7a1", "web",
            "legacy", "tenant-acme", "pod-abc-5"),
      Attrs("/api/products", "POST", "us-east-1", "build-7a1", "web",
            "legacy", "tenant-globex", "pod-abc-6") } \cup
    { Attrs(rt, "GET", "eu-west-1", "build-7a1", "web", "legacy", "tenant-umbrella",
            "pod-abc-8") : rt \in {"/api/users", "/api/orders", "/api/search"} }

\* the S6 coin drawn before the attributes are looked at
GateDrawnAlways(av) == TRUE

\* the S6 coin is drawn only for checkout requests in us-west-2
GateDrawn(av) == av.route = "/cart/checkout" /\ av.region = "us-west-2"

InitTiming ==
    /\ a \in TimingTuples
    /\ u \in GateDraws
    /\ GateDrawn(a) \/ u = GatePct
    /\ sc = "none" /\ spans = << >> /\ emitted = 0
    /\ ts \in {0, 1}
    /\ PickIdle /\ SchedIdle /\ UiIdle

\* one call emitTrace(ctx, st, ts) that samples a and u, under the free source
EmitFree ==
    /\ phase = "None" /\ sc = "none"
    /\ emitTrace(ts, a, u, Rand)
    /\ UNCHANGED <<choices, r, picked, phase, i, now, backfillStart, liveTicks>>
    /\ UNCHANGED procVars
    /\ UNCHANGED uiVars

SpecTiming == InitTiming /\ [][EmitFree]_vars

InitAttrs ==
    /\ a \in Tuples
    /\ u \in GateDraws
    /\ GateDrawn(a) \/ u = GatePct
    /\ PickIdle /\ TraceIdle /\ SchedIdle /\ UiIdle

\* one call emitTrace(ctx, st, ts) that samples a and u, timing draws seeded
EmitSeeded ==
    /\ phase = "None" /\ sc = "none"
    /\ emitTrace(ts, a, u, Seeded)
    /\ UNCHANGED <<choices, r, picked, phase, i, now, backfillStart, liveTicks>>
    /\ UNCHANGED procVars
    /\ UNCHANGED uiVars

SpecAttrs == InitAttrs /\ [][EmitSeeded]_vars

(* ── Main: the emission scheduler ───────────────────────────────────────── *)

\* 50 * 60 * 10 in the program, scaled down
backfillTraces == BackfillTraces

\* the requests and gate draws the scheduler's emitTrace calls are explored on
SchedInputs ==
    { <<Healthy("/api/users"), GatePct>>, <<Healthy("/api/orders"), GatePct>> } \cup
    { <<Attrs("/cart/checkout", "POST", "us-west-2", "build-7a2", "android",
              "legacy", "tenant-acme", "pod-abc-2"), uv>> : uv \in GateDraws }

\* the state when main starts: nothing is constructed yet
Init ==
    /\ phase = "Starting"
    /\ i = 0
    /\ now = BackfillWindow
    /\ backfillStart = 0
    /\ liveTicks = 0
    /\ a = NoAttrs /\ u = GatePct
    /\ PickIdle /\ TraceIdle /\ ProcIdle /\ UiIdle

\* the variables of the pure-function specifications and of the last trace
lastTrace == <<choices, r, picked, a, u, sc, ts, spans, emitted>>

\* grpc.NewClient (lines 909-915): on an error log.Fatalf ends the process
StartConn ==
    /\ phase = "Starting"
    /\ \/ connOpen' = TRUE /\ phase' = "Connected" /\ sinkErr' = sinkErr
          /\ logs' = logs
       \/ connOpen' = connOpen /\ phase' = "Failed" /\ sinkErr' = "conn"
          /\ logs' = Append(logs, <<"failed to create gRPC connection">>)
    /\ UNCHANGED lastTrace
    /\ UNCHANGED <<i, now, backfillStart, liveTicks, registry, signalled, sigPending,
                   stage, attempts, failures, tickReady, calls, open, afterSig,
                   deadline>>
    /\ UNCHANGED uiVars

\* otlptracegrpc.New with the error dropped: the registry is built all the same
StartExporterErrorDropped ==
    /\ phase = "Connected"
    /\ \/ sinkErr' = sinkErr
       \/ sinkErr' = "exporter"
    /\ phase' = "Backfilling"
    /\ registry' = Roster
    /\ backfillStart' = now - BackfillWindow
    /\ logs' = Append(logs, <<"backfilling 10 minutes of historical data...">>)
    /\ UNCHANGED lastTrace
    /\ UNCHANGED <<i, now, liveTicks, connOpen, signalled, sigPending, stage,
                   attempts, failures, tickReady, calls, open, afterSig, deadline>>
    /\ UNCHANGED uiVars

\* otlptracegrpc.New (lines 917-920): on an error log.Fatalf ends the process,
\* the deferred conn.Close() does not run; otherwise newServiceTracers builds
\* the six providers (line 922) and backfillStart is taken (line 931)
StartExporter ==
    /\ phase = "Connected"
    /\ \/ /\ phase' = "Backfilling"
          /\ registry' = Roster
          /\ backfillStart' = now - BackfillWindow
          /\ sinkErr' = sinkErr
          /\ logs' = Append(logs, <<"backfilling 10 minutes of historical data...">>)
       \/ /\ phase' = "Failed"
          /\ sinkErr' = "exporter"
          /\ logs' = Append(logs, <<"failed to create trace exporter">>)
          /\ UNCHANGED <<registry, backfillStart>>
    /\ UNCHANGED lastTrace
    /\ UNCHANGED <<i, now, liveTicks, connOpen, signalled, sigPending, stage,
                   attempts, failures, tickReady, calls, open, afterSig, deadline>>
    /\ UNCHANGED uiVars

\* the backfill iteration with the offset drawn from [0, window] inclusive
BackfillStepInclusive ==
    /\ phase = "Backfilling"
    /\ calls = 0
    /\ i < backfillTraces
    /\ \E off \in 0 .. BackfillWindow : \E in \in SchedInputs :
         emitTrace(backfillStart + off, in[1], in[2], Seeded)
    /\ i' = i + 1
    /\ calls' = calls + 1
    /\ open' = Len(spans')
    /\ UNCHANGED <<choices, r, picked, phase, now, backfillStart, liveTicks>>
    /\ UNCHANGED <<sinkErr, connOpen, registry, signalled, sigPending, stage,
                   attempts, failures, tickReady, afterSig, logs, deadline>>
    /\ UNCHANGED uiVars

\* one iteration of the backfill loop (lines 933-936): emitTrace is called and
\* starts the spans of the tree
BackfillStep ==
    /\ phase = "Backfilling"
    /\ calls = 0
    /\ i < backfillTraces
    /\ \E off \in 0 .. (BackfillWindow - 1) : \E in \in SchedInputs :
         emitTrace(backfillStart + off, in[1], in[2], Seeded)
    /\ i' = i + 1
    /\ calls' = calls + 1
    /\ open' = Len(spans')
    /\ UNCHANGED <<choices, r, picked, phase, now, backfillStart, liveTicks>>
    /\ UNCHANGED <<sinkErr, connOpen, registry, signalled, sigPending, stage,
                   attempts, failures, tickReady, afterSig, logs, deadline>>
    /\ UNCHANGED uiVars

\* emitTrace returns (line 345): the builder has called End on every span it
\* started, the root last
EmitReturn ==
    /\ calls > 0
    /\ calls' = calls - 1
    /\ open' = 0
    /\ UNCHANGED lastTrace
    /\ UNCHANGED <<phase, i, now, backfillStart, liveTicks, sinkErr, connOpen,
                   registry, signalled, sigPending, stage, attempts, failures,
                   tickReady, afterSig, logs, deadline>>
    /\ UNCHANGED uiVars

\* the live loop entered while backfill iterations remain
BackfillDoneEarly ==
    /\ phase = "Backfilling"
    /\ calls = 0
    /\ phase' = "Live"
    /\ logs' = Append(logs, <<"backfill complete, starting live emission...">>)
    /\ UNCHANGED lastTrace
    /\ UNCHANGED <<i, now, backfillStart, liveTicks, sinkErr, connOpen, registry,
                   signalled, sigPending, stage, attempts, failures, tickReady,
                   calls, open, afterSig, deadline>>
    /\ UNCHANGED uiVars

\* the loop condition fails (line 933): the ticker and the signal channel are
\* created (lines 940-944)
BackfillDone ==
    /\ phase = "Backfilling"
    /\ calls = 0
    /\ ~(i < backfillTraces)
    /\ phase' = "Live"
    /\ logs' = Append(logs, <<"backfill complete, starting live emission...">>)
    /\ UNCHANGED lastTrace
    /\ UNCHANGED <<i, now, backfillStart, liveTicks, sinkErr, connOpen, registry,
                   signalled, sigPending, stage, attempts, failures, tickReady,
                   calls, open, afterSig, deadline>>
    /\ UNCHANGED uiVars

\* the ticker sends a tick on ticker.C, which holds one tick; it may do so
\* while main is inside emitTrace
TickFires ==
    /\ phase = "Live"
    /\ ~tickReady
    /\ liveTicks < MaxTicks
    /\ tickReady' = TRUE
    /\ UNCHANGED lastTrace
    /\ UNCHANGED <<phase, i, now, backfillStart, liveTicks, sinkErr, connOpen,
                   registry, signalled, sigPending, stage, attempts, failures,
                   calls, open, afterSig, logs, deadline>>
    /\ UNCHANGED uiVars

\* the tick case run on its own goroutine: go emitTrace(ctx, st, time.Now())
LiveTickConcurrent ==
    /\ phase = "Live"
    /\ tickReady
    /\ liveTicks < MaxTicks
    /\ tickReady' = FALSE
    /\ now' = now + TickMs
    /\ \E in \in SchedInputs : emitTrace(now', in[1], in[2], Seeded)
    /\ liveTicks' = liveTicks + 1
    /\ calls' = calls + 1
    /\ open' = open + Len(spans')
    /\ afterSig' = IF sigPending THEN afterSig + 1 ELSE afterSig
    /\ UNCHANGED <<choices, r, picked, phase, i, backfillStart>>
    /\ UNCHANGED <<sinkErr, connOpen, registry, signalled, sigPending, stage,
                   attempts, failures, logs, deadline>>
    /\ UNCHANGED uiVars

\* case <-ticker.C (lines 948-949): the select of line 947 takes the tick,
\* whether or not sigCh holds a signal too, and calls emitTrace(ctx, st,
\* time.Now()), one period after the tick before
LiveTick ==
    /\ phase = "Live"
    /\ calls = 0
    /\ tickReady
    /\ liveTicks < MaxTicks
    /\ tickReady' = FALSE
    /\ now' = now + TickMs
    /\ \E in \in SchedInputs : emitTrace(now', in[1], in[2], Seeded)
    /\ liveTicks' = liveTicks + 1
    /\ calls' = calls + 1
    /\ open' = Len(spans')
    /\ afterSig' = IF sigPending THEN afterSig + 1 ELSE afterSig
    /\ UNCHANGED <<choices, r, picked, phase, i, backfillStart>>
    /\ UNCHANGED <<sinkErr, connOpen, registry, signalled, sigPending, stage,
                   attempts, failures, logs, deadline>>
    /\ UNCHANGED uiVars

\* SIGINT or SIGTERM after signal.Notify (line 944): the signal is queued in
\* sigCh, which holds one signal; main may be inside emitTrace
Interrupt ==
    /\ phase = "Live"
    /\ ~sigPending
    /\ sigPending' = TRUE
    /\ signalled' = TRUE
    /\ UNCHANGED lastTrace
    /\ UNCHANGED <<phase, i, now, backfillStart, liveTicks, sinkErr, connOpen,
                   registry, stage, attempts, failures, tickReady, calls, open,
                   afterSig, logs, deadline>>
    /\ UNCHANGED uiVars

\* the signal case that logs and goes on with the loop
SignalIgnored ==
    /\ phase = "Live"
    /\ calls = 0
    /\ sigPending
    /\ sigPending' = FALSE
    /\ logs' = Append(logs, <<"shutting down trace generator...">>)
    /\ UNCHANGED lastTrace
    /\ UNCHANGED <<phase, i, now, backfillStart, liveTicks, sinkErr, connOpen,
                   registry, signalled, stage, attempts, failures, tickReady, calls,
                   open, afterSig, deadline>>
    /\ UNCHANGED uiVars

\* case <-sigCh (lines 950-953): the select of line 947 takes the signal; log,
\* cancel() and return
Signal ==
    /\ phase = "Live"
    /\ calls = 0
    /\ sigPending
    /\ sigPending' = FALSE
    /\ phase' = "ShuttingDown"
    /\ logs' = Append(logs, <<"shutting down trace generator...">>)
    /\ UNCHANGED lastTrace
    /\ UNCHANGED <<i, now, backfillStart, liveTicks, sinkErr, connOpen, registry,
                   signalled, stage, attempts, failures, tickReady, calls, open,
                   afterSig, deadline>>
    /\ UNCHANGED uiVars

\* SIGINT or SIGTERM before signal.Notify (line 944), during the backfill:
\* Go's default action ends the process at once, no deferred call runs
KilledInBackfill ==
    /\ phase = "Backfilling"
    /\ phase' = "Killed"
    /\ signalled' = TRUE
    /\ UNCHANGED lastTrace
    /\ UNCHANGED <<i, now, backfillStart, liveTicks, sinkErr, connOpen, registry,
                   sigPending, stage, attempts, failures, tickReady, calls, open,
                   afterSig, logs, deadline>>
    /\ UNCHANGED uiVars

\* the same while the sink is being constructed
KilledAtStartup ==
    /\ phase \in {"Starting", "Connected"}
    /\ phase' = "Killed"
    /\ signalled' = TRUE
    /\ UNCHANGED lastTrace
    /\ UNCHANGED <<i, now, backfillStart, liveTicks, sinkErr, connOpen, registry,
                   sigPending, stage, attempts, failures, tickReady, calls, open,
                   afterSig, logs, deadline>>
    /\ UNCHANGED uiVars

\* first deferred call to run after the return: ticker.Stop() (line 941)
StopTicker ==
    /\ phase = "ShuttingDown" /\ stage = "none"
    /\ stage' = "tickerStopped"
    /\ UNCHANGED lastTrace
    /\ UNCHANGED <<phase, i, now, backfillStart, liveTicks, sinkErr, connOpen,
                   registry, signalled, sigPending, attempts, failures, tickReady,
                   calls, open, afterSig, logs, deadline>>
    /\ UNCHANGED uiVars

\* next deferred call, the closure of lines 923-927: shutdownCtx is created
\* with its timeout (line 924) and passed to st.shutdown
ShutdownCtx ==
    /\ phase = "ShuttingDown" /\ stage = "tickerStopped"
    /\ deadline' = now + ShutdownTimeoutMs
    /\ stage' = "registryShutting"
    /\ UNCHANGED lastTrace
    /\ UNCHANGED <<phase, i, now, backfillStart, liveTicks, sinkErr, connOpen,
                   registry, signalled, sigPending, attempts, failures, tickReady,
                   calls, open, afterSig, logs>>
    /\ UNCHANGED uiVars

\* st.shutdown that returns at the first Shutdown error
ShutdownStepShortCircuit ==
    /\ phase = "ShuttingDown" /\ stage = "registryShutting"
    /\ \E n \in registry :
         /\ attempts[n] = 0
         /\ attempts' = [attempts EXCEPT ![n] = @ + 1]
         /\ \/ failures' = failures /\ stage' = stage
            \/ failures' = failures \cup {n} /\ stage' = "registryShut"
    /\ UNCHANGED lastTrace
    /\ UNCHANGED <<phase, i, now, backfillStart, liveTicks, sinkErr, connOpen,
                   registry, signalled, sigPending, tickReady, calls, open,
                   afterSig, logs, deadline>>
    /\ UNCHANGED uiVars

\* one iteration of the loop of st.shutdown (lines 216-218): the map is ranged
\* over in any order, Shutdown(ctx) may return an error, which is assigned to
\* the blank identifier; nothing is logged
ShutdownStep ==
    /\ phase = "ShuttingDown" /\ stage = "registryShutting"
    /\ \E n \in registry :
         /\ attempts[n] = 0
         /\ attempts' = [attempts EXCEPT ![n] = @ + 1]
         /\ \/ failures' = failures
            \/ failures' = failures \cup {n}
    /\ stage' = stage
    /\ UNCHANGED lastTrace
    /\ UNCHANGED <<phase, i, now, backfillStart, liveTicks, sinkErr, connOpen,
                   registry, signalled, sigPending, tickReady, calls, open,
                   afterSig, logs, deadline>>
    /\ UNCHANGED uiVars

\* the range loop of st.shutdown is over every provider: the closure returns
ShutdownReturns ==
    /\ phase = "ShuttingDown" /\ stage = "registryShutting"
    /\ \A n \in registry : attempts[n] # 0
    /\ stage' = "registryShut"
    /\ UNCHANGED lastTrace
    /\ UNCHANGED <<phase, i, now, backfillStart, liveTicks, sinkErr, connOpen,
                   registry, signalled, sigPending, attempts, failures, tickReady,
                   calls, open, afterSig, logs, deadline>>
    /\ UNCHANGED uiVars

\* conn.Close() run before the deferred closure that shuts the registry down
CloseConnEarly ==
    /\ phase = "ShuttingDown" /\ stage \in {"tickerStopped", "registryShut"}
    /\ connOpen
    /\ connOpen' = FALSE
    /\ stage' = IF stage = "registryShut" THEN "connClosed" ELSE stage
    /\ UNCHANGED lastTrace
    /\ UNCHANGED <<phase, i, now, backfillStart, liveTicks, sinkErr, registry,
                   signalled, sigPending, attempts, failures, tickReady, calls,
                   open, afterSig, logs, deadline>>
    /\ UNCHANGED uiVars

\* next deferred call: conn.Close() (line 915)
CloseConn ==
    /\ phase = "ShuttingDown" /\ stage = "registryShut"
    /\ connOpen' = FALSE
    /\ stage' = "connClosed"
    /\ UNCHANGED lastTrace
    /\ UNCHANGED <<phase, i, now, backfillStart, liveTicks, sinkErr, registry,
                   signalled, sigPending, attempts, failures, tickReady, calls,
                   open, afterSig, logs, deadline>>
    /\ UNCHANGED uiVars

\* the last deferred call, cancel(), runs and the process exits
Exit ==
    /\ phase = "ShuttingDown" /\ stage = "connClosed"
    /\ phase' = "Exited"
    /\ UNCHANGED lastTrace
    /\ UNCHANGED <<i, now, backfillStart, liveTicks>>
    /\ UNCHANGED procVars
    /\ UNCHANGED uiVars

Next ==
    \/ StartConn \/ StartExporter \/ KilledAtStartup
    \/ BackfillStep \/ EmitReturn \/ BackfillDone \/ KilledInBackfill
    \/ TickFires \/ LiveTick \/ Interrupt \/ Signal
    \/ StopTicker \/ ShutdownCtx \/ ShutdownStep \/ ShutdownReturns
    \/ CloseConn \/ Exit

Spec == Init /\ [][Next]_vars

\* the scheduler under the scheduling of the Go runtime: a call of emitTrace
\* returns, and a select that finds the signal ready again and again takes it
SpecFair == Spec /\ WF_vars(EmitReturn) /\ SF_vars(Signal)

(* ── computeComparison (packages/shared-comparison/src/comparison.ts) ───── *)

\* the trace generator left alone: every variable of main.go
genVars == <<choices, r, picked, a, u, sc, ts, spans, phase, i, now, backfillStart,
             emitted, liveTicks, procVars>>

GenIdle == PickIdle /\ TraceIdle /\ SchedIdle /\ a = NoAttrs /\ u = GatePct

\* longest distribution explored
MaxDist == 2
\* percentages are explored in the units 0 .. MaxPct
MaxPct == 2

\* the attribute values a distribution is over
Values == { "GET", "POST" }

\* ValueDistribution[] of length n, one entry per value (GROUP BY value in
\* queryDistribution); count is not read by computeComparison
Distributions(n) ==
    { d \in [1 .. n -> [value : Values, percentage : 0 .. MaxPct]] :
        \A j \in 1 .. n : \A k \in 1 .. n : j # k => d[j].value # d[k].value }

Dists == UNION { Distributions(n) : n \in 0 .. MaxDist }

\* baselineMap.get(v) ?? 0: the Map holds the percentage set last for v
basePct(bl, v) ==
    LET ks == { k \in 1 .. Len(bl) : bl[k].value = v }
    IN  IF ks = {} THEN 0
        ELSE bl[CHOOSE k \in ks : \A m \in ks : m <= k].percentage

\* the locals of computeComparison before the first loop (lines 41-44)
locals0 == [highestDiff |-> 0, highestDiffValue |-> "", highestDiffIndex |-> 0,
            foundSelectionSignal |-> FALSE]

\* the loop over selection (lines 46-56) from entry k on; entry k has the
\* index i = k - 1 of the source
RECURSIVE scanSelection(_, _, _, _)
scanSelection(bl, sel, k, acc) ==
    IF k > Len(sel) THEN acc
    ELSE LET diff == sel[k].percentage - basePct(bl, sel[k].value)
         IN  scanSelection(bl, sel, k + 1,
               IF diff > acc.highestDiff
               THEN [highestDiff |-> diff, highestDiffValue |-> sel[k].value,
                     highestDiffIndex |-> k - 1, foundSelectionSignal |-> TRUE]
               ELSE acc)

\* the fallback loop over baseline (lines 64-73) from entry k on
RECURSIVE scanBaseline(_, _, _, _)
scanBaseline(bl, sel, k, acc) ==
    IF k > Len(bl) THEN acc
    ELSE scanBaseline(bl, sel, k + 1,
           IF /\ \A m \in 1 .. Len(sel) : sel[m].value # bl[k].value
              /\ bl[k].percentage > acc.highestDiff
           THEN [acc EXCEPT !.highestDiff = bl[k].percentage,
                            !.highestDiffValue = bl[k].value,
                            !.highestDiffIndex = 0 - 1]
           ELSE acc)

computeComparison(attribute, bl, sel) ==
    LET first == scanSelection(bl, sel, 1, locals0)
        last  == IF ~first.foundSelectionSignal THEN scanBaseline(bl, sel, 1, first)
                 ELSE first
    IN  [attribute |-> attribute, baseline |-> bl, selection |-> sel,
         highestDiffValue |-> last.highestDiffValue,
         highestDiffPct |-> last.highestDiff,
         highestDiffIndex |-> last.highestDiffIndex]

InitCompare ==
    /\ baseline \in Dists
    /\ selection \in Dists
    /\ result = Null
    /\ PanelIdle /\ HeatmapIdle /\ GenIdle

\* one call computeComparison(attribute, baseline, selection)
Compare ==
    /\ result = Null
    /\ result' = computeComparison("http.method", baseline, selection)
    /\ UNCHANGED <<baseline, selection, state, filters, inflight, started, drag,
                   boxSelection, contextMenu>>
    /\ UNCHANGED genVars

SpecCompare == InitCompare /\ [][Compare]_vars

(* ── AttributeComparisonPanel (shared-comparison) ───────────────────────── *)

\* number of distinct heatmap selections explored
NumSelections == 2
\* number of runComparison calls explored
MaxCalls == 3

\* the HeatmapSelection values passed to setSelection
Selections == { [id |-> n] : n \in 1 .. NumSelections }

\* the ad-hoc filters the cards can add: one attribute value, included or excluded
Filter(operator) == [key |-> "http.method", value |-> "GET", operator |-> operator]

\* runComparison(sel) up to its first await (lines 184-207): loading is set,
\* the filters are read into the queries, and the call waits for the queries
runComparison(st, sel, fs) ==
    /\ started < MaxCalls
    /\ state' = [st EXCEPT !.loading = TRUE]
    /\ inflight' = inflight \cup { [id |-> started + 1, sel |-> sel, extra |-> fs] }
    /\ started' = started + 1

\* setSelection(selection), lines 73-80
setSelection ==
    /\ \E sel \in Selections \cup {Null} :
         IF sel # Null
         THEN runComparison([state EXCEPT !.selection = sel], sel, filters)
         ELSE /\ state' = [state EXCEPT !.selection = sel, !.results = << >>,
                                        !.loading = FALSE]
              /\ UNCHANGED <<inflight, started>>
    /\ UNCHANGED <<filters, baseline, selection, result, drag, boxSelection,
                   contextMenu>>
    /\ UNCHANGED genVars

\* the body shared by addIncludeFilter and addExcludeFilter, adHocVar being
\* set: an existing filter returns, a new one is added and the comparison
\* is run again for the current selection
addFilter(f) ==
    /\ f \notin filters
    /\ filters' = filters \cup {f}
    /\ IF state.selection # Null
       THEN runComparison(state, state.selection, filters')
       ELSE UNCHANGED <<state, inflight, started>>
    /\ UNCHANGED <<baseline, selection, result, drag, boxSelection, contextMenu>>

\* addIncludeFilter(attr, value), lines 115-125
addIncludeFilter ==
    /\ \E f \in { Filter("=") } : addFilter(f)
    /\ UNCHANGED genVars

\* addExcludeFilter(attr, value), lines 127-137
addExcludeFilter ==
    /\ \E f \in { Filter("!=") } : addFilter(f)
    /\ UNCHANGED genVars

\* a runComparison call resumes after its queries (lines 224-230): it sets the
\* results it computed, which may be empty, and clears loading
runComparisonResolves ==
    /\ \E c \in inflight :
         /\ inflight' = inflight \ {c}
         /\ \E results \in { << >>, << [sel |-> c.sel, extra |-> c.extra] >> } :
              state' = [state EXCEPT !.results = results, !.loading = FALSE]
    /\ UNCHANGED <<filters, started, baseline, selection, result, drag,
                   boxSelection, contextMenu>>
    /\ UNCHANGED genVars

InitPanel == PanelIdle /\ CompareIdle /\ HeatmapIdle /\ GenIdle

NextPanel ==
    \/ setSelection \/ addIncludeFilter \/ addExcludeFilter \/ runComparisonResolves

SpecPanel == InitPanel /\ [][NextPanel]_vars

(* ── HeatmapPanel (the panel component, mouse handlers) ─────────────────── *)

\* const MARGIN = { top: 10, right: 10, bottom: 40, left: 60 }
MarginTop == 10
MarginRight == 10
MarginBottom == 40
MarginLeft == 60
\* onMouseUp: "Require minimum drag distance", x2 - x1 < 5 && y2 - y1 < 5
MinDragPx == 5
\* onMouseUp: Math.min(x2 + 4, width - 200)
MenuGapPx == 4
MenuWidthPx == 200

\* the width and height props the panel is explored with
PanelWidth == 300
PanelHeight == 100
\* largest number of trace ids resolveSelection finds in a box
MaxTraceIds == 2

plotW == PanelWidth - MarginLeft - MarginRight
plotH == PanelHeight - MarginTop - MarginBottom

Min(x, y) == IF x < y THEN x ELSE y

\* distances from the plot's corner the mouse is put at: both sides of the
\* minimum drag distance
Offsets == { 0, MinDragPx - 1, MinDragPx, 2 * MinDragPx - 1 }

\* mouse positions relative to the overlay canvas, one of them left of and
\* above the plot
MouseXs == { MarginLeft - 1 } \cup { MarginLeft + o : o \in Offsets }
MouseYs == { MarginTop - 1 } \cup { MarginTop + o : o \in Offsets }

\* resolveSelection(x1, y1, x2, y2): the payload of the box; the number of
\* trace ids in it depends on the data of the panel
resolveSelection(x1, y1, x2, y2, n) ==
    [timeRange |-> <<x1, x2>>, latencyRange |-> <<y2, y1>>, traceIds |-> n]

\* onMouseDown (lines 407-423): any click dismisses the menu; a click inside
\* the plot starts a drag and drops the selection
onMouseDown ==
    /\ \E x \in MouseXs, y \in MouseYs :
         /\ contextMenu' = Null
         /\ IF x < MarginLeft \/ x > MarginLeft + plotW
               \/ y < MarginTop \/ y > MarginTop + plotH
            THEN UNCHANGED <<drag, boxSelection>>
            ELSE /\ drag' = [startX |-> x, startY |-> y, currentX |-> x, currentY |-> y]
                 /\ boxSelection' = Null
    /\ UNCHANGED <<baseline, selection, result, state, filters, inflight, started>>
    /\ UNCHANGED genVars

\* onMouseMove (lines 425-435): the position is clamped to the plot
onMouseMove ==
    /\ drag # Null
    /\ \E x \in MouseXs, y \in MouseYs :
         drag' = [drag EXCEPT !.currentX = Max(MarginLeft, Min(x, MarginLeft + plotW)),
                              !.currentY = Max(MarginTop, Min(y, MarginTop + plotH))]
    /\ UNCHANGED <<boxSelection, contextMenu>>
    /\ UNCHANGED <<baseline, selection, result, state, filters, inflight, started>>
    /\ UNCHANGED genVars

\* onMouseUp committing a box of any size
onMouseUpNoMinimum ==
    /\ drag # Null
    /\ LET x1 == Min(drag.startX, drag.currentX)
           x2 == Max(drag.startX, drag.currentX)
           y1 == Min(drag.startY, drag.currentY)
           y2 == Max(drag.startY, drag.currentY)
       IN  /\ boxSelection' = [x1 |-> x1, y1 |-> y1, x2 |-> x2, y2 |-> y2]
           /\ drag' = Null
           /\ \E n \in 0 .. MaxTraceIds :
                contextMenu' = [x |-> Min(x2 + MenuGapPx, PanelWidth - MenuWidthPx),
                                y |-> Max(y1, MarginTop),
                                payload |-> resolveSelection(x1, y1, x2, y2, n)]
    /\ UNCHANGED <<baseline, selection, result, state, filters, inflight, started>>
    /\ UNCHANGED genVars

\* onMouseUp (lines 437-462): a drag shorter than the minimum in both axes
\* is dropped; any other commits the box and opens the menu at its corner
onMouseUp ==
    /\ drag # Null
    /\ LET x1 == Min(drag.startX, drag.currentX)
           x2 == Max(drag.startX, drag.currentX)
           y1 == Min(drag.startY, drag.currentY)
           y2 == Max(drag.startY, drag.currentY)
       IN  IF x2 - x1 < MinDragPx /\ y2 - y1 < MinDragPx
           THEN /\ drag' = Null
                /\ boxSelection' = Null
                /\ UNCHANGED contextMenu
           ELSE /\ boxSelection' = [x1 |-> x1, y1 |-> y1, x2 |-> x2, y2 |-> y2]
                /\ drag' = Null
                /\ \E n \in 0 .. MaxTraceIds :
                     contextMenu' = [x |-> Min(x2 + MenuGapPx, PanelWidth - MenuWidthPx),
                                     y |-> Max(y1, MarginTop),
                                     payload |-> resolveSelection(x1, y1, x2, y2, n)]
    /\ UNCHANGED <<baseline, selection, result, state, filters, inflight, started>>
    /\ UNCHANGED genVars

\* onMouseLeave (lines 464-468): leaving the canvas during a drag ends it
onMouseLeave ==
    /\ drag # Null
    /\ onMouseUp
    /\ UNCHANGED genVars

\* handleBubbles (lines 471-475), "Analyse Outliers": the payload is
\* published and the menu closed
handleBubbles ==
    /\ contextMenu # Null
    /\ contextMenu' = Null
    /\ UNCHANGED <<drag, boxSelection>>
    /\ UNCHANGED <<baseline, selection, result, state, filters, inflight, started>>
    /\ UNCHANGED genVars

\* handleZoom (lines 477-483): the time range is changed, menu and selection
\* are dropped
handleZoom ==
    /\ contextMenu # Null
    /\ contextMenu' = Null
    /\ boxSelection' = Null
    /\ UNCHANGED drag
    /\ UNCHANGED <<baseline, selection, result, state, filters, inflight, started>>
    /\ UNCHANGED genVars

\* handleViewTrace (lines 485-491): only for a box holding one trace
handleViewTrace ==
    /\ contextMenu # Null
    /\ contextMenu.payload.traceIds = 1
    /\ contextMenu' = Null
    /\ UNCHANGED <<drag, boxSelection>>
    /\ UNCHANGED <<baseline, selection, result, state, filters, inflight, started>>
    /\ UNCHANGED genVars

\* dismissMenu (lines 493-495)
dismissMenu ==
    /\ contextMenu # Null
    /\ contextMenu' = Null
    /\ UNCHANGED <<drag, boxSelection>>
    /\ UNCHANGED <<baseline, selection, result, state, filters, inflight, started>>
    /\ UNCHANGED genVars

InitHeatmap == HeatmapIdle /\ CompareIdle /\ PanelIdle /\ GenIdle

NextHeatmap ==
    \/ onMouseDown \/ onMouseMove \/ onMouseUp \/ onMouseLeave
    \/ handleBubbles \/ handleZoom \/ handleViewTrace \/ dismissMenu

SpecHeatmap == InitHeatmap /\ [][NextHeatmap]_vars

(* ── Properties ─────────────────────────────────────────────────────────── *)

Children == { k \in 1 .. Len(spans) : spans[k].parent # 0 }

\* C1: in every emitted tree every child span ends at or before the end of
\* its parent span
ChildEndsWithinParent ==
    \A k \in Children : spans[k].end <= spans[spans[k].parent].end

\* C2: in every emitted tree every child span starts at or after the start of
\* its parent span
ChildStartsAfterParent ==
    \A k \in Children : spans[k].start >= spans[spans[k].parent].start

\* a slow-checkout tree in which jitter moved the payment spans off their parents
JitteredTreeEmitted ==
    /\ sc = "SlowCheckout" /\ Len(spans) = 9
    /\ spans[2].start > spans[1].start
    /\ spans[9].start > spans[8].start
    /\ spans[8].start > spans[2].start

\* C3: every emitted span lasts at least 1 ms, end minus start
SpanDurationPositive ==
    \A k \in 1 .. Len(spans) : spans[k].end - spans[k].start >= 1

\* the predicate of rule n of the classifier's priority list
RuleHolds(n, av, coin) ==
    CASE n = 1 -> av.route = "/cart/checkout" /\ av.region = "us-west-2" /\ coin
      [] n = 2 -> av.route = "/cart/checkout" /\ av.featureFlag = "new-checkout-flow"
                  /\ av.region = "eu-west-1"
      [] n = 3 -> av.route = "/api/orders" /\ av.platform = "ios"
                  /\ av.buildID = "build-7a3"
      [] n = 4 -> av.tenant = "tenant-initech" /\ av.featureFlag = "dark-launch-search"
                  /\ av.route = "/api/search"
      [] n = 5 -> av.route = "/api/auth" /\ av.buildID = "build-7a3"
                  /\ av.pod \in {"pod-abc-7", "pod-abc-8"}
      [] n = 6 -> av.region = "ap-southeast-1" /\ av.route \in {"/api/users", "/api/auth"}
      [] n = 7 -> av.tenant = "tenant-globex" /\ av.route = "/api/products"
                  /\ av.method = "POST"
      [] OTHER -> av.tenant = "tenant-umbrella" /\ av.region = "eu-west-1"

RuleOutcome == << "PaymentTimeout", "SlowCheckout", "IOSOrderErrors", "InitechSearch",
                  "AuthMemoryLeak", "RedisTimeoutAPAC", "GlobexBatch",
                  "UmbrellaCompliance" >>

Matching(av, coin) == { n \in 1 .. Len(RuleOutcome) : RuleHolds(n, av, coin) }

FirstRule(av, coin) ==
    IF Matching(av, coin) = {} THEN "Normal"
    ELSE RuleOutcome[CHOOSE n \in Matching(av, coin) : \A m \in Matching(av, coin) : n <= m]

\* C4: detectScenario returns the outcome of the first rule of the priority
\* list whose predicate holds, and Normal when none holds
FirstMatchWins ==
    sc # "none" => sc = FirstRule(a, u < GatePct)

\* a request that satisfies two rules was given the outcome of the earlier one
OverlapResolved ==
    /\ sc = "SlowCheckout"
    /\ Cardinality(Matching(a, u < GatePct)) = 2

\* C5: a request on /api/orders from ios build-7a3 is classified as
\* IOSOrderErrors whatever its other attributes and the coin
IOSOrdersClassified ==
    (sc # "none" /\ a.route = "/api/orders" /\ a.platform = "ios"
       /\ a.buildID = "build-7a3")
    => sc = "IOSOrderErrors"

\* an ios build-7a3 order of the Umbrella tenant in eu-west-1 was classified
IOSUmbrellaOrderClassified ==
    /\ sc = "IOSOrderErrors"
    /\ a.tenant = "tenant-umbrella" /\ a.region = "eu-west-1"
    /\ u < GatePct

\* C6: a checkout request in us-west-2 whose gate comes out true is emitted as
\* PaymentTimeout, with a root span of status error and HTTP status 504
PaymentTimeoutRoot ==
    (sc # "none" /\ a.route = "/cart/checkout" /\ a.region = "us-west-2" /\ u < GatePct)
    => /\ sc = "PaymentTimeout"
       /\ Len(spans) >= 1
       /\ spans[1].parent = 0
       /\ spans[1].status = "Error"
       /\ spans[1].attrs["http.status_code"] = 504

\* a payment timeout was emitted for a request with the new checkout flow
PaymentTimeoutEmitted ==
    /\ sc = "PaymentTimeout" /\ Len(spans) = 5
    /\ a.featureFlag = "new-checkout-flow" /\ a.tenant = "tenant-umbrella"

\* C7: the scenario is fixed by the tuple and the coin outcome: any other
\* draw with the same coin outcome gives the same scenario, and for a tuple
\* outside checkout in us-west-2 every draw gives the same scenario
ScenarioFixedByCoin ==
    sc # "none" =>
      \A u2 \in Float64 :
        ((u2 < GatePct) = (u < GatePct) \/ ~GateDrawn(a)) => detectScenario(a, u2) = sc

\* a checkout outside us-west-2 was classified with the coin true
CoinIgnored ==
    /\ sc # "none" /\ a.route = "/cart/checkout" /\ a.region = "eu-west-1"
    /\ u < GatePct

\* C8: a pool in which one entry carries all of the weight yields that entry
SoleWeightPicked ==
    picked # 0 =>
      \A k \in 1 .. Len(choices) :
        (/\ choices[k].weight = totalWeight(choices)
         /\ \A m \in 1 .. Len(choices) : m # k => choices[m].weight = 0)
        => picked = choices[k].value

\* C9: a completed backfill has made exactly backfillTraces emitTrace calls,
\* never more, and every backfill call has a timestamp in [now - window, now)
BackfillExact ==
    /\ emitted - liveTicks <= backfillTraces
    /\ phase \in {"Live", "ShuttingDown", "Exited"} => emitted - liveTicks = backfillTraces
    /\ (emitted > 0 /\ liveTicks = 0)
         => (backfillStart <= ts /\ ts < backfillStart + BackfillWindow
             /\ backfillStart = now - BackfillWindow)

\* the backfill has completed and its last request was stamped at the last
\* instant of the window
BackfillCompleted ==
    /\ phase = "Live" /\ liveTicks = 0
    /\ emitted = backfillTraces
    /\ ts = now - 1

\* C10: the phases follow Backfilling, Live, ShuttingDown; a live tick is
\* processed only after the whole backfill, a backfill request never after a
\* live tick, and no emitTrace call starts once ShuttingDown is entered
PhaseStep ==
    /\ phase \in {"Starting", "Connected"}
         => phase' \in {"Starting", "Connected", "Backfilling", "Failed", "Killed"}
    /\ phase = "Backfilling" => phase' \in {"Backfilling", "Live", "Killed"}
    /\ phase = "Live" => phase' \in {"Live", "ShuttingDown"}
    /\ phase = "ShuttingDown" => phase' \in {"ShuttingDown", "Exited"}
    /\ phase \in {"Exited", "Killed", "Failed"} => phase' = phase
    /\ emitted' # emitted =>
         /\ phase \in {"Backfilling", "Live"} /\ phase' = phase
         /\ phase = "Live" => (emitted - liveTicks = backfillTraces /\ liveTicks' > liveTicks)
         /\ phase = "Backfilling" => (liveTicks = 0 /\ liveTicks' = 0)

PhasesInOrder == [][PhaseStep]_vars

\* the generator went through the three phases, with live ticks, and exited
AllPhasesPassed ==
    /\ phase = "Exited" /\ liveTicks = MaxTicks
    /\ emitted = backfillTraces + MaxTicks

\* C11: whenever the process has ended after a signal was delivered, the
\* scheduler went through ShuttingDown and Shutdown was called on every
\* provider of the registry before the exit
SignalEndsInRegistryShutdown ==
    (signalled /\ phase \in {"Exited", "Killed"})
    => (phase = "Exited" /\ \A n \in Roster : attempts[n] >= 1)

\* C12: st.shutdown calls Shutdown on each of the six providers exactly once,
\* whichever calls fail and in whatever order the map is ranged over
EveryProviderShutOnce ==
    /\ \A n \in Roster : attempts[n] <= 1
    /\ failures \subseteq { n \in Roster : attempts[n] = 1 }
    /\ stage \in {"registryShut", "connClosed"}
         => (registry = Roster /\ \A n \in Roster : attempts[n] = 1)

\* the process exited after the Shutdown of two providers had failed
ExitedAfterFailedShutdowns ==
    /\ phase = "Exited"
    /\ failures = {"api-gateway", "payment-service"}
    /\ \A n \in Roster : attempts[n] = 1

\* C13: when a constructor of the sink fails the process ends at startup: no
\* registry is created and no emitTrace call is made
SinkFailureIsFatal ==
    sinkErr # "none"
    => (phase = "Failed" /\ registry = {} /\ emitted = 0 /\ spans = << >>)

\* the exporter constructor failed on an open connection
ExporterFailed ==
    /\ sinkErr = "exporter" /\ phase = "Failed" /\ connOpen

\* the nine attribute keys the comparison and heatmap views group on
StableKeys == { "http.route", "http.method", "user.id", "app.tenant_id", "host.region",
                "app.build_id", "app.platform", "app.feature_flag", "k8s.pod.name" }

\* C14: every emitted span carries the nine stable keys with the values of
\* the request's tuple
EverySpanCarriesStableKeys ==
    \A k \in 1 .. Len(spans) : \A key \in StableKeys :
      /\ key \in DOMAIN spans[k].attrs
      /\ spans[k].attrs[key] = commonAttrs(a)[key]

\* C15: every tracer looked up for an emitted span is one of the roster, and
\* the service of the request's route is one of the roster
TracerLookupsInRoster ==
    sc # "none"
    => /\ routeToService(a.route) \in Roster
       /\ \A k \in 1 .. Len(spans) : spans[k].tracer \in Roster

\* a compliance trace of /api/auth was emitted on the tracers of its service
AuthRouteTracersLookedUp ==
    /\ sc = "UmbrellaCompliance" /\ a.route = "/api/auth"
    /\ Len(spans) = 4
    /\ spans[2].tracer = "user-service" /\ spans[4].tracer = "user-service"

\* C16: the http.status_code of the root span is the one of the scenario
RootStatusByScenario ==
    sc # "none"
    => LET code == spans[1].attrs["http.status_code"]
       IN  /\ spans[1].parent = 0
           /\ sc \in {"IOSOrderErrors", "InitechSearch"} => code = 500
           /\ sc = "PaymentTimeout" => code = 504
           /\ sc = "AuthMemoryLeak" => code \in {503, 200}
           /\ sc \in {"SlowCheckout", "RedisTimeoutAPAC", "GlobexBatch"} => code = 200
           /\ sc \in {"UmbrellaCompliance", "Normal"} => code \in {200, 201, 404}

\* a compliance trace answered 404
ComplianceNotFoundEmitted ==
    /\ sc = "UmbrellaCompliance"
    /\ spans[1].attrs["http.status_code"] = 404

\* the duration of the root span of the emitted trace
RootDuration == spans[1].end - spans[1].start

\* C17, as stated: the root span of a payment timeout lasts 4000 to 6000 ms
PaymentRootWithinRange ==
    sc = "PaymentTimeout" => (4000 <= RootDuration /\ RootDuration <= 6000)

\* C17, amended: the root span of a payment timeout lasts 5000 + 500 z ms for
\* the deviate z drawn, at least 1 ms, and 4000 to 6000 ms when |z| <= 2
PaymentRootIsClampedGaussian ==
    sc = "PaymentTimeout"
    => /\ RootDuration >= 1
       /\ \E z \in ZSet :
            /\ RootDuration = (IF 5000 + 500 * z < 1 THEN 1 ELSE 5000 + 500 * z)
            /\ (0 - 2 <= z /\ z <= 2) => (4000 <= RootDuration /\ RootDuration <= 6000)

\* a payment timeout whose root span has the mean duration
PaymentRootAtMean ==
    /\ sc = "PaymentTimeout" /\ RootDuration = 5000

\* C18: the root span and the service span have status error exactly in the
\* error-producing outcomes
ErrorStatusPropagated ==
    sc # "none"
    => LET failing ==
             \/ sc \in {"IOSOrderErrors", "InitechSearch", "PaymentTimeout"}
             \/ sc = "AuthMemoryLeak" /\ spans[1].attrs["http.status_code"] = 503
       IN  /\ (spans[1].status = "Error") = failing
           /\ (spans[2].status = "Error") = failing
           /\ spans[1].tracer = "api-gateway" /\ spans[2].parent = 1

\* an auth request answered 503, root and user-service failed
AuthFailureEmitted ==
    /\ sc = "AuthMemoryLeak"
    /\ spans[1].attrs["http.status_code"] = 503
    /\ spans[1].status = "Error" /\ spans[2].status = "Error"

\* C19, as stated: every child span after the first under a parent starts at
\* or after the end of the sibling emitted before it
SiblingsSequential ==
    \A k \in Children : \A m \in Children :
      (k < m /\ spans[k].parent = spans[m].parent) => spans[m].start >= spans[k].end

\* C19, amended: that holds in every builder but emitNormalTrace
SiblingsSequentialOutsideNormal ==
    sc # "Normal" => SiblingsSequential

\* a slow checkout with five queries, the payment starting after the last one
FiveQueriesThenPayment ==
    /\ sc = "SlowCheckout" /\ Len(spans) = 9
    /\ spans[8].start > spans[7].end
    /\ spans[4].start > spans[3].end

NamedSpans(name) == { k \in 1 .. Len(spans) : spans[k].name = name }

\* C20: a slow-checkout tree is one root, the order-service span, 3 to 5
\* postgres.query children of it, then one payment-service.charge child of
\* it with one external.payment.process child
SlowCheckoutShape ==
    sc = "SlowCheckout"
    => LET n == Len(spans) - 4 IN
       /\ n \in 3 .. 5
       /\ { k \in 1 .. Len(spans) : spans[k].parent = 0 } = {1}
       /\ spans[2].name = <<"order-service", ".handle">> /\ spans[2].parent = 1
       /\ NamedSpans(<<"postgres.query">>) = 3 .. (n + 2)
       /\ \A k \in 3 .. (n + 2) : spans[k].parent = 2
       /\ NamedSpans(<<"payment-service.charge">>) = {n + 3}
       /\ spans[n + 3].parent = 2
       /\ NamedSpans(<<"external.payment.process">>) = {n + 4}
       /\ { k \in 1 .. Len(spans) : spans[k].parent = n + 3 } = {n + 4}

\* a slow checkout with three queries
ThreeQueryCheckoutEmitted ==
    /\ sc = "SlowCheckout" /\ Len(spans) = 7
    /\ spans[6].name = <<"payment-service.charge">>

\* C21: in a normal trace the payment-service.charge span and its nested
\* external call are emitted exactly for /cart/checkout, the
\* notification-service.send span exactly for /api/orders with a status code
\* below 400, and the redis.get span exactly for the routes of user-service
NormalBranchesByRoute ==
    sc = "Normal"
    => LET code   == spans[1].attrs["http.status_code"]
           pays   == NamedSpans(<<"payment-service.charge">>)
           exts   == NamedSpans(<<"external.payment.process">>)
           notifs == NamedSpans(<<"notification-service.send">>)
           gets   == NamedSpans(<<"redis.get">>)
       IN  /\ Cardinality(pays) = (IF a.route = "/cart/checkout" THEN 1 ELSE 0)
           /\ Cardinality(exts) = Cardinality(pays)
           /\ \A e \in exts : spans[e].parent \in pays
           /\ Cardinality(notifs) = (IF a.route = "/api/orders" /\ code < 400 THEN 1 ELSE 0)
           /\ Cardinality(gets) = (IF routeToService(a.route) = "user-service" THEN 1 ELSE 0)

\* a normal order answered 404: no notification is sent
FailedOrderWithoutNotification ==
    /\ sc = "Normal" /\ a.route = "/api/orders"
    /\ spans[1].attrs["http.status_code"] = 404
    /\ Len(spans) = 3

\* C22, as stated: a request emitted as an auth memory leak has drawn the
\* gate of the classifier before the outcome gate of its builder
AuthDrawsClassificationGate ==
    sc = "AuthMemoryLeak" => GateDrawn(a)

\* C22, amended: a request emitted as an auth memory leak has drawn no gate
\* during classification; the one coin drawn for it is the outcome gate of
\* the builder, which answers 503 with error status or 200 without
AuthDrawsOutcomeGateOnly ==
    sc = "AuthMemoryLeak"
    => LET code == spans[1].attrs["http.status_code"]
       IN  /\ ~GateDrawn(a)
           /\ \A uv \in GateDraws : detectScenario(a, uv) = "AuthMemoryLeak"
           /\ code \in {503, 200}
           /\ (spans[1].status = "Error") = (code = 503)

\* an auth memory leak request answered 200
AuthHealthyOutcomeEmitted ==
    /\ sc = "AuthMemoryLeak"
    /\ spans[1].attrs["http.status_code"] = 200 /\ spans[1].status = "Ok"

\* the predicates of the S7 and S3 rules
UmbrellaPredicate(av) == av.tenant = "tenant-umbrella" /\ av.region = "eu-west-1"
RedisPredicate(av) ==
    av.region = "ap-southeast-1" /\ routeToService(av.route) = "user-service"

\* C23, as stated: the pools the tuple of a request is drawn from hold a
\* tuple that satisfies both the Umbrella and the Redis predicate
UmbrellaRedisOverlapExists ==
    a \in Tuples => \E t \in Tuples : UmbrellaPredicate(t) /\ RedisPredicate(t)

\* C23, amended: no tuple satisfies both predicates, the one asking for
\* eu-west-1 and the other for ap-southeast-1, so a request classified by
\* either rule does not satisfy the other and their order decides nothing
UmbrellaRedisDisjoint ==
    /\ ~(UmbrellaPredicate(a) /\ RedisPredicate(a))
    /\ sc = "RedisTimeoutAPAC" => ~UmbrellaPredicate(a)
    /\ sc = "UmbrellaCompliance" => ~RedisPredicate(a)

\* an Umbrella request on a user-service route: of the two rules only S7 holds
UmbrellaUserServiceClassified ==
    /\ sc = "UmbrellaCompliance"
    /\ routeToService(a.route) = "user-service"
    /\ a.region = "eu-west-1"

\* C24, as stated: at most one emitTrace call is started between the delivery
\* of a signal in Live and ShuttingDown
AtMostOneCallAfterSignal ==
    afterSig <= 1

\* C24, amended: a signal delivered in Live is followed by ShuttingDown,
\* entered from the select with no emitTrace call in progress; the calls
\* started in between are not bounded by one
SignalObservedEventually ==
    sigPending ~> (phase = "ShuttingDown" /\ calls = 0)

\* ShuttingDown entered after two emitTrace calls started with the signal queued
ShutdownAfterTwoFurtherCalls ==
    /\ phase = "ShuttingDown" /\ signalled
    /\ afterSig = 2

\* an emitTrace call starts only when none is in progress and no span is open
CallStartsAlone ==
    emitted' # emitted => (calls = 0 /\ open = 0 /\ calls' = 1)

\* C25: at most one emitTrace call is in progress, no span is open once the
\* call has returned, and neither the next call nor the teardown starts
\* while a call is in progress
TreesBuiltOneAtATime ==
    /\ [](calls \in {0, 1})
    /\ [](calls = 0 => open = 0)
    /\ []((phase \in {"ShuttingDown", "Exited"} \/ stage # "none")
            => (calls = 0 /\ open = 0))
    /\ [][CallStartsAlone]_vars

\* a live call in progress while the next tick and a signal are both waiting
CallInProgressOthersWaiting ==
    /\ phase = "Live" /\ calls = 1 /\ open = Len(spans) /\ open >= 3
    /\ tickReady /\ sigPending

\* the log records of failed Shutdown calls
FailureRecords == { k \in 1 .. Len(logs) : logs[k][1] = "shutdown failed" }

\* C26: every provider whose Shutdown failed has a log record
ShutdownFailuresLogged ==
    \A n \in failures : \E k \in FailureRecords : logs[k][2] = n

\* C28: the deferred calls run in the order ticker.Stop, registry shutdown
\* under the one deadline of shutdownCtx, conn.Close; the connection is not
\* closed before Shutdown was called on every provider
TeardownInOrder ==
    /\ stage # "none" => phase \in {"ShuttingDown", "Exited"}
    /\ (\E n \in Roster : attempts[n] > 0)
         => /\ stage \in {"registryShutting", "registryShut", "connClosed"}
            /\ deadline = now + ShutdownTimeoutMs
    /\ (phase \in {"ShuttingDown", "Exited"} /\ ~connOpen)
         => (stage = "connClosed" /\ \A n \in Roster : attempts[n] = 1)
    /\ phase = "Exited" => ~connOpen

\* the connection closed after the Shutdown of every provider had failed
ConnClosedAfterShutdownFailed ==
    /\ stage = "connClosed" /\ ~connOpen
    /\ failures = Roster
    /\ deadline = now + ShutdownTimeoutMs

\* some value of the selection is over-represented against the baseline
OverRepresented ==
    \E k \in 1 .. Len(selection) :
      selection[k].percentage - basePct(baseline, selection[k].value) > 0

\* some value of the baseline alone has a positive percentage
BaselineOnly ==
    \E k \in 1 .. Len(baseline) :
      /\ \A m \in 1 .. Len(selection) : selection[m].value # baseline[k].value
      /\ baseline[k].percentage > 0

\* C27: a highestDiffIndex >= 0 is an index of selection whose entry has the
\* value highestDiffValue, and it is -1 exactly when the value reported comes
\* from the baseline-only fallback
IndexNamesHighestDiffValue ==
    result # Null
    => /\ result.highestDiffIndex >= 0
            => /\ result.highestDiffIndex < Len(selection)
               /\ selection[result.highestDiffIndex + 1].value = result.highestDiffValue
       /\ (result.highestDiffIndex = 0 - 1) = (~OverRepresented /\ BaselineOnly)

\* C29: with no selection the panel shows no results and is not loading, and
\* it is loading while a runComparison call for the current selection waits
PanelFollowsSelection ==
    /\ state.selection = Null => (state.results = << >> /\ ~state.loading)
    /\ (\E c \in inflight : c.sel = state.selection) => state.loading

\* the drag is shorter than the minimum distance in both axes
ShortDrag(d) ==
    /\ Max(d.startX, d.currentX) - Min(d.startX, d.currentX) < MinDragPx
    /\ Max(d.startY, d.currentY) - Min(d.startY, d.currentY) < MinDragPx

\* during a drag nothing is selected and no menu is shown, a menu is shown
\* only with a selection, and a selection is not short in both axes
DragSelectionMenu ==
    /\ drag # Null => (boxSelection = Null /\ contextMenu = Null)
    /\ contextMenu # Null => boxSelection # Null
    /\ boxSelection # Null
         => ~(/\ boxSelection.x2 - boxSelection.x1 < MinDragPx
              /\ boxSelection.y2 - boxSelection.y1 < MinDragPx)

\* a short drag that ends leaves no selection and no menu
ShortDragCommitsNothing ==
    (drag # Null /\ drag' = Null /\ ShortDrag(drag))
    => (boxSelection' = Null /\ contextMenu' = Null)

\* C30: while a drag is in progress there is no committed selection and no
\* context menu, a menu is shown only while a selection exists, and a drag
\* shorter than 5 px in both axes commits no selection and opens no menu
DragSelectionMenuConsistent ==
    []DragSelectionMenu /\ [][ShortDragCommitsNothing]_vars

\* a box narrower than the minimum but tall enough is committed, menu open
MenuOnNarrowSelection ==
    /\ drag = Null /\ contextMenu # Null /\ boxSelection # Null
    /\ boxSelection.x2 - boxSelection.x1 < MinDragPx
    /\ boxSelection.y2 - boxSelection.y1 >= MinDragPx

====
